---- MODULE Spec2Model ----
(***************************************************************************)
(* gosu: self-update of a Go application (check -> download -> apply).     *)
(* The model follows src/gosu.go lines 295-647 (the Updater with a         *)
(* cancellable, progress-observed DownloadAsset) and src/utils.go.         *)
(*                                                                         *)
(* Threads of the model:                                                   *)
(*   - the host thread that calls CheckUpdates, DownloadAsset, UpdateApp   *)
(*     one after another, in any order (pc);                               *)
(*   - any other host thread calling CancelAssetDownloading at any time;   *)
(*   - one getDownloadingPercent goroutine per DownloadAsset invocation    *)
(*     that was given a progress channel (poller);                         *)
(*   - the observer of the progress channel, which is always ready to      *)
(*     receive (the loop of the README usage), so a send on the open,      *)
(*     unbuffered channel completes as one step and appends to received.   *)
(***************************************************************************)
EXTENDS Integers, Sequences, FiniteSets, TLC

(***************************************************************************)
(* Bounds of the model.                                                    *)
(***************************************************************************)
\* number of DownloadAsset invocations explored in one session
MaxDownloads == 2
\* largest asset size (bytes) the registry reports
MaxSize == 2
\* number of samples the poller computes during one download
MaxSamples == 2
\* largest body (bytes) of a response the registry rejects
MaxErrBody == 2

(***************************************************************************)
(* Program constants.                                                      *)
(***************************************************************************)
CODE_LATEST_VERSION_IS_ALREADY_IN_USE == 0
CODE_UNRELEASED_VERSION_IS_IN_USE == 1
CODE_NEW_VERSION_DETECTED == 2
CODE_DOWNLOADING_CANCELLED == 3
CODE_DOWNLOADING_COMPLETED == 4
CODE_ERROR == 5
\* SetRetryCount(3): one attempt plus at most three retries
RetryCount == 3

NIL == "nil"
\* a Go pointer, interface or channel value: NilPtr, or Ptr(v) that points to v
NilPtr == <<>>
Ptr(v) == <<v>>
Deref(p) == p[1]
\* no code: nothing was returned yet
NoCode == -1
NoResult == [Code |-> NoCode, Message |-> "", Details |-> ""]
NoFile == -1

\* how the process stands: running, ended by os.Exit(0), or ended by a panic
Running == "running"
Exit0 == "exit(0)"
PanicLastReleaseNil == "panic: lastRelease is nil"
PanicReleaseAssetNil == "panic: releaseAsset is nil"
PanicCancelNil == "panic: cancelDownloading is nil"
PanicIndexOutOfRange == "panic: index out of range [-1]"
PanicNilDereference == "panic: nil pointer dereference"
PanicSendOnClosed == "panic: send on closed channel"

(***************************************************************************)
(* Versions.  A version string is parsed by semver.NewVersion, which is    *)
(* loose: it accepts a leading "v" and missing minor/patch segments.       *)
(***************************************************************************)
VersionStrings == {"1.2.0", "1.3.0", "v2.0.0", "not-a-version"}

\* a parser that takes every string it cannot read for version 0.0.0
parseSemVerZero(version) ==
    CASE version = "1.2.0" -> <<1, 2, 0>>
      [] version = "1.3.0" -> <<1, 3, 0>>
      [] version = "v2.0.0" -> <<2, 0, 0>>
      [] OTHER -> <<0, 0, 0>>

\* utils.go 71-83: semver.NewVersion, nil when the string is no version
parseSemVer(version) ==
    CASE version = "1.2.0" -> <<1, 2, 0>>
      [] version = "1.3.0" -> <<1, 3, 0>>
      [] version = "v2.0.0" -> <<2, 0, 0>>
      [] OTHER -> NilPtr

\* a comparison that looks at the major segment only
SemVerLessThanMajor(a, b) == a[1] < b[1]

\* semver.Version.LessThan
SemVerLessThan(a, b) ==
    \/ a[1] < b[1]
    \/ a[1] = b[1] /\ a[2] < b[2]
    \/ a[1] = b[1] /\ a[2] = b[2] /\ a[3] < b[3]

SemVerEqual(a, b) == a = b

(***************************************************************************)
(* Releases the registry can answer with.                                  *)
(***************************************************************************)
Sizes == 1..MaxSize

GhReleaseAsset(name, size) == [Name |-> name, Size |-> size]

AssetLists ==
    {<<GhReleaseAsset("app-linux.tar.gz", s)>> : s \in Sizes}
        \cup {<<GhReleaseAsset("app-win.zip", 1), GhReleaseAsset("app-linux.tar.gz", MaxSize)>>}

GhRelease(tag, assets) == [TagName |-> tag, Body |-> "release notes", Assets |-> assets]

\* every tag with one list of assets, and every list of assets with the newest tag
GhReleases ==
    {GhRelease(tag, <<GhReleaseAsset("app-linux.tar.gz", MaxSize)>>) : tag \in VersionStrings}
        \cup {GhRelease("v2.0.0", assets) : assets \in AssetLists}

\* the hosts of the model: runtime.GOOS, the local version, the changelog option
Hosts ==
    {<<"linux", "1.3.0", FALSE>>, <<"windows", "1.3.0", TRUE>>,
     <<"darwin", "not-a-version", FALSE>>}

VARIABLES
    GOOS,               \* runtime.GOOS
    LocalVersion,       \* Updater.LocalVersion
    DownloadChangelog,  \* Updater.DownloadChangelog
    lastRelease,        \* Updater.lastRelease (NilPtr or Ptr of a release)
    releaseAsset,       \* Updater.releaseAsset (NilPtr or Ptr of the selected asset)
    downloadingCtx,     \* Updater.downloadingCtx (NilPtr or Ptr of a token)
    cancelDownloading,  \* Updater.cancelDownloading (NilPtr or Ptr of the token it cancels)
    cancelled,          \* the tokens whose cancel function has been called
    process,            \* Running, Exit0 or the panic that ended the process
    pc,                 \* where the host thread is
    call,               \* the operation the host thread invoked last
    result,             \* the UpdateResult the last call returned, NoResult until it returns
    checkCode,          \* history: the code the last CheckUpdates returned
    downloadCode,       \* history: the code the last DownloadAsset returned
    ret,                \* the UpdateResult DownloadAsset is returning (deferred calls pending)
    dl,                 \* number of DownloadAsset invocations that passed the nil check
    progressCh,         \* progressCh of the current invocation: NilPtr or Ptr of the channel
    progressClosed,     \* the progress channels that are closed
    stopClosed,         \* the stop channels that are closed
    asset,              \* the local variable asset of DownloadAsset
    file,               \* size of the destination file on disk, NoFile when absent
    xfer,               \* where the transfer of downloadAsset is
    attempt,            \* number of attempts that failed to connect in the running request
    err,                \* what downloadAsset returned
    poller,             \* per invocation, the state of its getDownloadingPercent
    received,           \* the samples the observer received in the invocation running or just returned
    scriptWritten,      \* the extraction script is on disk
    scriptLaunched,     \* the extraction script was started
    fetched,            \* history: some getLastRelease succeeded
    cancelSinceEntry,   \* history: CancelAssetDownloading was called since this download was entered
    cancelInFlight,     \* history: CancelAssetDownloading was called while this transfer was in flight
    changelogCall,      \* history: how getChangelog went in the CheckUpdates called last, "none" when not called
    fetchErr,           \* history: the error of getLastRelease in the CheckUpdates called last, NIL when none
    cancelAgain         \* history: since the host's last call began, CancelAssetDownloading was called for a token cancelled already

config == <<GOOS, LocalVersion, DownloadChangelog>>
updater == <<lastRelease, releaseAsset, downloadingCtx, cancelDownloading>>
host == <<pc, call, result, checkCode, downloadCode, ret, dl>>
channels == <<progressCh, progressClosed, stopClosed>>
transfer == <<xfer, attempt, err>>
extractor == <<scriptWritten, scriptLaunched>>
history == <<fetched, cancelSinceEntry, cancelInFlight, cancelAgain, changelogCall, fetchErr>>
vars == <<config, updater, cancelled, process, host, channels, asset, file, transfer,
          poller, received, extractor, history>>

Tokens == 1..MaxDownloads

UpdateResult(code, message, details) ==
    [Code |-> code, Message |-> message, Details |-> details]

Init ==
    /\ \E h \in Hosts :
          /\ GOOS = h[1]
          /\ LocalVersion = h[2]
          /\ DownloadChangelog = h[3]
    /\ lastRelease = NilPtr
    /\ releaseAsset = NilPtr
    /\ downloadingCtx = NilPtr
    /\ cancelDownloading = NilPtr
    /\ cancelled = {}
    /\ process = Running
    /\ pc = "idle"
    /\ call = "none"
    /\ result = NoResult
    /\ checkCode = NoCode
    /\ downloadCode = NoCode
    /\ ret = NoResult
    /\ dl = 0
    /\ progressCh = NilPtr
    /\ progressClosed = {}
    /\ stopClosed = {}
    /\ asset = GhReleaseAsset("", 0)
    /\ file = NoFile
    /\ xfer = "none"
    /\ attempt = 0
    /\ err = NIL
    /\ poller = [d \in Tokens |-> [pc |-> "off", sample |-> NilPtr]]
    /\ received = <<>>
    /\ scriptWritten = FALSE
    /\ scriptLaunched = FALSE
    /\ fetched = FALSE
    /\ cancelSinceEntry = FALSE
    /\ cancelInFlight = FALSE
    /\ cancelAgain = FALSE
    /\ changelogCall = "none"
    /\ fetchErr = NIL

Live == process = Running

\* the host makes a call after the goroutine of the download before has ended
PollersEnded == \A d \in Tokens : poller[d].pc \in {"off", "done"}

\* a new call of the host: the observations of the call before are dropped
NextCall ==
    /\ received' = <<>>
    /\ cancelSinceEntry' = FALSE
    /\ cancelInFlight' = FALSE
    /\ cancelAgain' = FALSE

\* a new call of the host: the stop channel, the progress channel and the ended
\* goroutine of the invocations before are out of the program's reach
EndedInvocationsDropped ==
    /\ poller' = [d \in Tokens |-> [pc |-> "off", sample |-> NilPtr]]
    /\ progressClosed' = {}
    /\ stopClosed' = {}

(***************************************************************************)
(* CheckUpdates (gosu.go 380-441), one step of the host thread.            *)
(***************************************************************************)
\* the errors getLastRelease and getChangelog can return
HttpErrors ==
    {"dial tcp 140.82.121.6:443: connect: connection refused",
     "Request failed with status code: 404. Not Found"}

\* the text of the error dropped
parseHttpErrorBlank(e) == ""

\* utils.go 64-69
parseHttpError(e) ==
    IF e = "dial tcp 140.82.121.6:443: connect: connection refused"
    THEN "Unable to connect to the server"
    ELSE e

\* what getChangelog returns: the text and the error
ChangelogAnswers ==
    {[text |-> "changelog text", err |-> NIL]}
        \cup {[text |-> "", err |-> e] : e \in HttpErrors}

CheckUpdatesResult(release, changelog) ==
    LET remoteSemver == parseSemVer(release.TagName)
        localSemver == parseSemVer(LocalVersion)
    IN  IF remoteSemver = NilPtr \/ localSemver = NilPtr
        THEN UpdateResult(CODE_ERROR, "Unable to get updates. The SemVer is invalid.", "")
        ELSE IF SemVerEqual(remoteSemver, localSemver)
        THEN UpdateResult(CODE_LATEST_VERSION_IS_ALREADY_IN_USE,
                          "You already use the latest version.", "")
        ELSE IF SemVerLessThan(remoteSemver, localSemver)
        THEN UpdateResult(CODE_UNRELEASED_VERSION_IS_IN_USE,
                          "You use the unreleased version.", "")
        ELSE UpdateResult(CODE_NEW_VERSION_DETECTED,
                          "New version detected. Download update?",
                          IF DownloadChangelog THEN changelog.text ELSE release.Body)

\* getChangelog called whatever the comparison of the versions says
CallsGetChangelogAlways(release) == DownloadChangelog

\* gosu.go 393-423: the versions parse, the remote one is the newer and the host
\* opted in, so getChangelog is called
CallsGetChangelog(release) ==
    LET remoteSemver == parseSemVer(release.TagName)
        localSemver == parseSemVer(LocalVersion)
    IN  /\ remoteSemver # NilPtr /\ localSemver # NilPtr
        /\ ~SemVerEqual(remoteSemver, localSemver)
        /\ ~SemVerLessThan(remoteSemver, localSemver)
        /\ DownloadChangelog

CheckUpdatesFetchFailed ==
    /\ Live /\ pc = "idle" /\ PollersEnded
    /\ changelogCall' = "none"
    /\ \E e \in HttpErrors :
          /\ result' = UpdateResult(CODE_ERROR, "Unable to get updates.", parseHttpError(e))
          /\ fetchErr' = e
    /\ checkCode' = result'.Code
    /\ call' = "CheckUpdates"
    /\ NextCall
    /\ EndedInvocationsDropped /\ progressCh' = NilPtr
    /\ UNCHANGED <<config, updater, cancelled, process, pc, downloadCode, ret, dl,
                   asset, file, transfer, extractor, fetched>>

CheckUpdates ==
    /\ Live /\ pc = "idle" /\ PollersEnded
    /\ \E release \in GhReleases, changelog \in ChangelogAnswers :
          /\ lastRelease' = Ptr(release)
          /\ result' = CheckUpdatesResult(release, changelog)
          /\ fetchErr' = NIL
          /\ changelogCall' = IF ~CallsGetChangelog(release) THEN "none"
                              ELSE IF changelog.err = NIL THEN "ok" ELSE "failed"
    /\ checkCode' = result'.Code
    /\ fetched' = TRUE
    /\ call' = "CheckUpdates"
    /\ NextCall
    /\ EndedInvocationsDropped /\ progressCh' = NilPtr
    /\ UNCHANGED <<config, releaseAsset, downloadingCtx, cancelDownloading, cancelled,
                   process, pc, downloadCode, ret, dl, asset, file, transfer, extractor>>

(***************************************************************************)
(* DownloadAsset (gosu.go 443-523).                                        *)
(***************************************************************************)
\* the check of gosu.go 444 left out
LastReleaseUnchecked == FALSE

\* gosu.go 444: the sequencing check of DownloadAsset
LastReleaseIsNil == lastRelease = NilPtr

\* the token of the invocation before kept when there is one
WithCancelReused(d) == IF cancelDownloading # NilPtr THEN cancelDownloading ELSE Ptr(d)

\* gosu.go 456: context.WithCancel makes a token of its own for invocation d
WithCancel(d) == Ptr(d)

\* strings.Contains on the strings of the model
StrContains(s, sub) ==
    \/ s = sub
    \/ <<s, sub>> \in {<<"app-linux.tar.gz", "-linux">>, <<"app-win.zip", "-win">>}

\* slices.IndexFunc, 1-based; 0 stands for Go's -1
RECURSIVE IndexFrom(_, _, _)
IndexFrom(assets, marker, i) ==
    IF i > Len(assets) THEN 0
    ELSE IF StrContains(assets[i].Name, marker) THEN i
    ELSE IndexFrom(assets, marker, i + 1)

IndexFunc(assets, marker) == IndexFrom(assets, marker, 1)

\* the panic of a function whose deferred calls are still to run
Panicking(msg) == [Code |-> -2, Message |-> msg, Details |-> ""]

\* gosu.go 443-454: entry; the nil check, stopCh and the deferred function
DownloadAssetEnter ==
    /\ Live /\ pc = "idle" /\ PollersEnded /\ dl < MaxDownloads
    /\ call' = "DownloadAsset"
    /\ result' = NoResult
    /\ NextCall
    /\ changelogCall' = "none" /\ fetchErr' = NIL
    /\ EndedInvocationsDropped
    /\ IF LastReleaseIsNil
       THEN /\ process' = PanicLastReleaseNil
            /\ progressCh' = NilPtr
            /\ UNCHANGED <<pc, downloadCode, dl>>
       ELSE /\ dl' = dl + 1
            /\ progressCh' \in {NilPtr, Ptr(dl + 1)}
            /\ pc' = "da_ctx"
            /\ downloadCode' = NoCode
            /\ UNCHANGED process
    /\ UNCHANGED <<config, updater, cancelled, checkCode, ret, asset, file, transfer,
                   extractor, fetched>>

\* gosu.go 456-458: the token of this invocation
DownloadAssetNewContext ==
    /\ Live /\ pc = "da_ctx"
    /\ downloadingCtx' = WithCancel(dl)
    /\ cancelDownloading' = WithCancel(dl)
    /\ pc' = "da_select"
    /\ UNCHANGED <<config, lastRelease, releaseAsset, cancelled, process, call, result, checkCode, downloadCode, ret,
                   dl, channels, asset, file, transfer, poller, received, extractor, history>>

\* a return statement of DownloadAsset: the deferred function runs next
Return(r) ==
    /\ ret' = r
    /\ pc' = "da_close_progress"

\* gosu.go 460-481: the asset of this platform
DownloadAssetSelect ==
    /\ Live /\ pc = "da_select"
    /\ LET marker == IF StrContains(GOOS, "linux") THEN "-linux"
                     ELSE IF StrContains(GOOS, "windows") THEN "-win"
                     ELSE NIL
       IN  IF marker = NIL
           THEN /\ Return(UpdateResult(CODE_ERROR, "Unsupported OS: " \o GOOS, ""))
                /\ UNCHANGED <<releaseAsset, asset>>
           ELSE IF lastRelease = NilPtr
           THEN /\ Return(Panicking(PanicNilDereference))
                /\ UNCHANGED <<releaseAsset, asset>>
           ELSE LET assetIndex == IndexFunc(Deref(lastRelease).Assets, marker)
                IN  IF assetIndex = 0
                    THEN /\ Return(Panicking(PanicIndexOutOfRange))
                         /\ UNCHANGED <<releaseAsset, asset>>
                    ELSE /\ asset' = Deref(lastRelease).Assets[assetIndex]
                         /\ releaseAsset' = Ptr(Deref(lastRelease).Assets[assetIndex])
                         /\ pc' = "da_remove"
                         /\ UNCHANGED ret
    /\ UNCHANGED <<config, lastRelease, downloadingCtx, cancelDownloading, cancelled, process,
                   call, result, checkCode, downloadCode, dl, channels, file, transfer, poller, received, extractor,
                   history>>

\* the stale file left where it is
DownloadAssetRemoveFileSkipped ==
    /\ Live /\ pc = "da_remove"
    /\ pc' = "da_poller"
    /\ UNCHANGED <<config, updater, cancelled, process, call, result, checkCode, downloadCode,
                   ret, dl, channels, asset, file, transfer, poller, received, extractor,
                   history>>

\* gosu.go 483-490 and utils.go 13-23: the stale file is removed
DownloadAssetRemoveFile ==
    /\ Live /\ pc = "da_remove"
    /\ \/ /\ file' = NoFile
          /\ pc' = "da_poller"
          /\ UNCHANGED ret
       \/ /\ file # NoFile
          /\ Return(UpdateResult(CODE_ERROR, "Unable to delete the old asset: " \o asset.Name,
                                 "remove: permission denied"))
          /\ UNCHANGED file
    /\ UNCHANGED <<config, updater, cancelled, process, call, result, checkCode, downloadCode, dl, channels, asset,
                   transfer, poller, received, extractor, history>>

\* gosu.go 492-496: the poller is started and downloadAsset is called
DownloadAssetStartPoller ==
    /\ Live /\ pc = "da_poller"
    /\ poller' = IF progressCh # NilPtr
                 THEN [poller EXCEPT ![dl] = [pc |-> "tick", sample |-> NilPtr]]
                 ELSE poller
    /\ pc' = "da_transfer"
    /\ xfer' = "connect"
    /\ UNCHANGED <<config, updater, cancelled, process, call, result, checkCode, downloadCode, ret, dl, channels,
                   asset, file, attempt, err, received, extractor, history>>

(***************************************************************************)
(* downloadAsset (gosu.go 591-611): the resty request with                 *)
(* SetRetryCount(3) and SetContext(downloadingCtx), its output written to  *)
(* the destination file.  An attempt that gets no response is retried      *)
(* after a backoff wait; the body of a response is streamed to the file,   *)
(* created empty when the response arrives; a cancelled context ends the   *)
(* request, its wait or its body copy with context.Canceled.               *)
(***************************************************************************)
Canceled == "context canceled"
CanceledGet == "Get: context canceled"
ConnectionFailed == "Get: connection reset by peer"
BodyFailed == "unexpected EOF"
StatusFailed == "Request failed with status code: 404. Not Found"

\* errors.Is(e, target): e is target or wraps it
ErrorsIs(e, target) ==
    \/ e = target
    \/ <<e, target>> \in {<<CanceledGet, Canceled>>}

\* ctx.Err() # nil for the context of the request
CtxCancelled == downloadingCtx # NilPtr /\ Deref(downloadingCtx) \in cancelled

\* the request is running and bytes of the asset are still to come
InFlight ==
    /\ pc = "da_transfer"
    /\ \/ xfer \in {"connect", "backoff"}
       \/ xfer = "body" /\ file < asset.Size

\* downloadAsset returns e
DownloadReturns(e) ==
    /\ err' = e
    /\ xfer' = "none"
    /\ pc' = "da_after"

TransferUnchanged ==
    UNCHANGED <<config, updater, cancelled, process, call, result, checkCode, downloadCode, ret, dl, channels, asset,
                poller, received, extractor, history>>

\* an attempt that gets no response retried whatever the number of retries made
TransferConnectFailedAgain ==
    /\ Live /\ pc = "da_transfer" /\ xfer = "connect" /\ ~CtxCancelled
    /\ attempt' = attempt + 1 /\ xfer' = "backoff"
    /\ UNCHANGED <<err, pc, file>>
    /\ TransferUnchanged

\* an attempt gets no response (gosu.go 595: retried up to RetryCount times)
TransferConnectFailed ==
    /\ Live /\ pc = "da_transfer" /\ xfer = "connect" /\ ~CtxCancelled
    /\ IF attempt < RetryCount
       THEN attempt' = attempt + 1 /\ xfer' = "backoff" /\ UNCHANGED <<err, pc>>
       ELSE attempt' = 0 /\ DownloadReturns(ConnectionFailed)
    /\ UNCHANGED file
    /\ TransferUnchanged

\* the wait before a retry
TransferBackoff ==
    /\ Live /\ pc = "da_transfer" /\ xfer = "backoff" /\ ~CtxCancelled
    /\ xfer' = "connect"
    /\ UNCHANGED <<attempt, err, pc, file>>
    /\ TransferUnchanged

\* an attempt gets a success response: the output file is created (gosu.go 600)
TransferResponse ==
    /\ Live /\ pc = "da_transfer" /\ xfer = "connect" /\ ~CtxCancelled
    /\ attempt' = 0
    /\ file' = 0
    /\ xfer' = "body"
    /\ UNCHANGED <<err, pc>>
    /\ TransferUnchanged

\* an attempt gets an error status: its body is the output, checkHttpResponse fails
\* (gosu.go 605-607, utils.go 57-62)
TransferRejected ==
    /\ Live /\ pc = "da_transfer" /\ xfer = "connect" /\ ~CtxCancelled
    /\ attempt' = 0
    /\ file' \in 0..MaxErrBody
    /\ DownloadReturns(StatusFailed)
    /\ TransferUnchanged

\* bytes of the body land in the file
TransferChunk ==
    /\ Live /\ pc = "da_transfer" /\ xfer = "body" /\ ~CtxCancelled
    /\ file < asset.Size
    /\ file' = file + 1
    /\ UNCHANGED <<xfer, attempt, err, pc>>
    /\ TransferUnchanged

\* the connection breaks in the middle of the body: not retried
TransferBodyFailed ==
    /\ Live /\ pc = "da_transfer" /\ xfer = "body" /\ ~CtxCancelled
    /\ file < asset.Size
    /\ DownloadReturns(BodyFailed)
    /\ UNCHANGED <<attempt, file>>
    /\ TransferUnchanged

\* the body is complete: downloadAsset returns nil (gosu.go 609-610)
TransferComplete ==
    /\ Live /\ pc = "da_transfer" /\ xfer = "body"
    /\ file = asset.Size
    /\ DownloadReturns(NIL)
    /\ UNCHANGED <<attempt, file>>
    /\ TransferUnchanged

\* the context is cancelled: the request, the wait or the body copy ends with
\* context.Canceled (gosu.go 598, 602-604)
TransferCancelled ==
    /\ Live /\ InFlight /\ CtxCancelled
    /\ DownloadReturns(IF xfer = "body" THEN Canceled ELSE CanceledGet)
    /\ attempt' = 0 /\ UNCHANGED file
    /\ TransferUnchanged

(***************************************************************************)
(* DownloadAsset after the transfer (gosu.go 496-523) and its deferred     *)
(* function (gosu.go 449-454).                                             *)
(***************************************************************************)
\* the branch of gosu.go 498-503 left out: every error is reported as CODE_ERROR
DownloadFailureUnsorted(e) == UpdateResult(CODE_ERROR, "Unable to download asset.", e)

\* gosu.go 497-509: the result for an error of downloadAsset
DownloadFailure(e) ==
    IF ErrorsIs(e, Canceled)
    THEN UpdateResult(CODE_DOWNLOADING_CANCELLED, "The asset downloading has been cancelled.", "")
    ELSE UpdateResult(CODE_ERROR, "Unable to download asset.", e)

DownloadingProgress(total, current, percent) ==
    [TotalSize |-> total, CurrentSize |-> current, ProgressPercent |-> percent]

DownloadAssetAfterTransfer ==
    /\ Live /\ pc = "da_after"
    /\ IF err # NIL
       THEN Return(DownloadFailure(err))
       ELSE pc' = "da_final" /\ UNCHANGED ret
    /\ err' = NIL
    /\ UNCHANGED <<config, updater, cancelled, process, call, result, checkCode, downloadCode, dl, channels, asset,
                   file, xfer, attempt, poller, received, extractor, history>>

\* gosu.go 511-522: the final sample, then the return of the completed result
DownloadAssetFinalSample ==
    /\ Live /\ pc = "da_final"
    /\ received' = IF progressCh # NilPtr
                   THEN Append(received, DownloadingProgress(asset.Size, asset.Size, 100))
                   ELSE received
    /\ Return(UpdateResult(CODE_DOWNLOADING_COMPLETED,
                           "A new application version downloaded successfully.", ""))
    /\ UNCHANGED <<config, updater, cancelled, process, call, result, checkCode, downloadCode, dl, channels, asset,
                   file, transfer, poller, extractor, history>>

\* a deferred function that leaves the progress channel open
DownloadAssetCloseProgressSkipped ==
    /\ Live /\ pc = "da_close_progress"
    /\ pc' = "da_close_stop"
    /\ UNCHANGED <<config, updater, cancelled, process, call, result, checkCode, downloadCode,
                   ret, dl, channels, asset, file, transfer, poller, received, extractor,
                   history>>

\* gosu.go 450-452: the deferred function closes the progress channel
DownloadAssetCloseProgress ==
    /\ Live /\ pc = "da_close_progress"
    /\ progressClosed' = IF progressCh # NilPtr
                         THEN progressClosed \cup {Deref(progressCh)}
                         ELSE progressClosed
    /\ pc' = "da_close_stop"
    /\ UNCHANGED <<config, updater, cancelled, process, call, result, checkCode, downloadCode, ret, dl, progressCh,
                   stopClosed, asset, file, transfer, poller, received, extractor, history>>

\* gosu.go 453: the deferred function closes stopCh; DownloadAsset then returns
\* its result or goes on panicking
DownloadAssetCloseStop ==
    /\ Live /\ pc = "da_close_stop"
    /\ stopClosed' = stopClosed \cup {dl}
    /\ pc' = "idle"
    /\ IF ret.Code = Panicking("").Code
       THEN process' = ret.Message /\ UNCHANGED <<result, downloadCode>>
       ELSE result' = ret /\ downloadCode' = ret.Code /\ UNCHANGED process
    /\ ret' = NoResult
    /\ asset' = GhReleaseAsset("", 0)
    /\ UNCHANGED <<config, updater, cancelled, call, checkCode, dl, progressCh,
                   progressClosed, file, transfer, poller, received, extractor, history>>

(***************************************************************************)
(* getDownloadingPercent (gosu.go 613-646), the goroutine of invocation d. *)
(***************************************************************************)
\* gosu.go 637-641: int(float64(currentSize) / float64(totalSize) * 100); for the
\* sizes of the model the float64 quotient times 100, truncated, is the integer
\* quotient of currentSize * 100 by totalSize
ProgressPercent(currentSize, totalSize) == (currentSize * 100) \div totalSize

PollerUnchanged ==
    UNCHANGED <<config, updater, cancelled, host, channels, asset, file, transfer, extractor,
                history>>

\* gosu.go 615-617: stopCh is closed, the goroutine returns
PollerStopped(d) ==
    /\ Live /\ poller[d].pc = "tick" /\ d \in stopClosed
    /\ poller' = [poller EXCEPT ![d].pc = "done"]
    /\ UNCHANGED <<process, received>>
    /\ PollerUnchanged

\* a poller that returns when it finds no file
PollerFileAbsentReturns(d) ==
    /\ Live /\ poller[d].pc = "tick" /\ d \notin stopClosed
    /\ file = NoFile
    /\ poller' = [poller EXCEPT ![d].pc = "done"]
    /\ UNCHANGED <<process, received>>
    /\ PollerUnchanged

\* gosu.go 618-623 and 644: the file is absent, the tick is skipped
PollerFileAbsent(d) ==
    /\ Live /\ poller[d].pc = "tick" /\ d \notin stopClosed
    /\ file = NoFile
    /\ UNCHANGED <<poller, process, received>>
    /\ PollerUnchanged

\* gosu.go 618-631: Open or Stat fails for another reason, the goroutine returns
PollerReadError(d) ==
    /\ Live /\ poller[d].pc = "tick" /\ d \notin stopClosed
    /\ file # NoFile
    /\ poller' = [poller EXCEPT ![d].pc = "done"]
    /\ UNCHANGED <<process, received>>
    /\ PollerUnchanged

\* gosu.go 618-637: the sample of this tick; totalSize is asset.Size of the
\* invocation (gosu.go 493), the asset releaseAsset points to (gosu.go 481)
PollerStat(d) ==
    /\ Live /\ poller[d].pc = "tick" /\ d \notin stopClosed
    /\ file # NoFile
    /\ Len(received) < MaxSamples
    /\ LET currentSize == IF file = 0 THEN 1 ELSE file
           totalSize == Deref(releaseAsset).Size
       IN  poller' = [poller EXCEPT ![d].pc = "send",
                                    ![d].sample = Ptr(DownloadingProgress(totalSize, currentSize,
                                                      ProgressPercent(currentSize, totalSize)))]
    /\ UNCHANGED <<process, received>>
    /\ PollerUnchanged

\* gosu.go 638-644: the send on progressCh; on a closed channel it panics
PollerSend(d) ==
    /\ Live /\ poller[d].pc = "send"
    /\ IF d \in progressClosed
       THEN process' = PanicSendOnClosed /\ UNCHANGED <<poller, received>>
       ELSE /\ received' = Append(received, Deref(poller[d].sample))
            /\ poller' = [poller EXCEPT ![d].pc = "tick", ![d].sample = NilPtr]
            /\ UNCHANGED process
    /\ PollerUnchanged

(***************************************************************************)
(* CancelAssetDownloading (gosu.go 525-532), from any thread.              *)
(***************************************************************************)
InDownloadAsset ==
    pc \in {"da_ctx", "da_select", "da_remove", "da_poller", "da_transfer", "da_after",
            "da_final", "da_close_progress", "da_close_stop"}

\* a cancel function that takes the cancellation back when called again
CancelFuncToggle(token) ==
    IF token \in cancelled THEN cancelled \ {token} ELSE cancelled \cup {token}

\* gosu.go 531: the context.CancelFunc of a token; after the first call, calls do nothing
CancelFunc(token) == cancelled \cup {token}

CancelAssetDownloading ==
    /\ Live
    /\ IF cancelDownloading = NilPtr
       THEN process' = PanicCancelNil /\ UNCHANGED <<cancelled, history>>
       ELSE /\ cancelled' = CancelFunc(Deref(cancelDownloading))
            /\ cancelSinceEntry' = (cancelSinceEntry \/ InDownloadAsset)
            /\ cancelInFlight' = (cancelInFlight \/ InFlight)
            /\ cancelAgain' = (cancelAgain \/ Deref(cancelDownloading) \in cancelled)
            /\ UNCHANGED <<process, fetched, changelogCall, fetchErr>>
    /\ UNCHANGED <<config, updater, host, channels, asset, file, transfer, poller, received,
                   extractor>>

(***************************************************************************)
(* UpdateApp (gosu.go 534-552) and createAndRunExtractor (utils.go 25-44). *)
(***************************************************************************)
\* the check of gosu.go 535 left out
ReleaseAssetUnchecked == FALSE

\* gosu.go 535: the sequencing check of UpdateApp
ReleaseAssetIsNil == releaseAsset = NilPtr

UpdateAppUnchanged ==
    UNCHANGED <<config, updater, cancelled, checkCode, downloadCode, ret, dl, asset,
                file, transfer, fetched>>

UpdateAppEnter ==
    /\ Live /\ pc = "idle" /\ PollersEnded
    /\ call' = "UpdateApp"
    /\ result' = NoResult
    /\ NextCall
    /\ changelogCall' = "none" /\ fetchErr' = NIL
    /\ EndedInvocationsDropped /\ progressCh' = NilPtr
    /\ IF ReleaseAssetIsNil
       THEN process' = PanicReleaseAssetNil /\ UNCHANGED pc
       ELSE pc' = "ua_write" /\ UNCHANGED process
    /\ UNCHANGED extractor
    /\ UpdateAppUnchanged

\* the error result made, and the function going on to os.Exit all the same
UpdateAppFailedExits(details) ==
    /\ result' = UpdateResult(CODE_ERROR, "Unable to create or run extractor.", details)
    /\ pc' = "ua_exit"

\* gosu.go 539-546: the error of createAndRunExtractor is returned
UpdateAppFailed(details) ==
    /\ result' = UpdateResult(CODE_ERROR, "Unable to create or run extractor.", details)
    /\ pc' = "idle"

\* utils.go 29-32: os.WriteFile of the script
ExtractorWrite ==
    /\ Live /\ pc = "ua_write"
    /\ \/ scriptWritten' = TRUE /\ pc' = "ua_start" /\ UNCHANGED result
       \/ UpdateAppFailed("open ./update.sh: permission denied") /\ UNCHANGED scriptWritten
    /\ UNCHANGED <<process, call, scriptLaunched>>
    /\ UNCHANGED <<channels, poller, received, cancelSinceEntry, cancelInFlight, cancelAgain,
                   changelogCall, fetchErr>>
    /\ UpdateAppUnchanged

\* the script taken for started without cmd.Start
ExtractorStartSkipped ==
    /\ Live /\ pc = "ua_start"
    /\ pc' = "ua_exit"
    /\ UNCHANGED <<process, call, result, scriptWritten, scriptLaunched>>
    /\ UNCHANGED <<channels, poller, received, cancelSinceEntry, cancelInFlight, cancelAgain,
                   changelogCall, fetchErr>>
    /\ UpdateAppUnchanged

\* utils.go 35-43: cmd.Start of the script, never waited for
ExtractorStart ==
    /\ Live /\ pc = "ua_start"
    /\ \/ scriptLaunched' = TRUE /\ pc' = "ua_exit" /\ UNCHANGED result
       \/ UpdateAppFailed("fork/exec ./update.sh: exec format error")
          /\ UNCHANGED scriptLaunched
    /\ UNCHANGED <<process, call, scriptWritten>>
    /\ UNCHANGED <<channels, poller, received, cancelSinceEntry, cancelInFlight, cancelAgain,
                   changelogCall, fetchErr>>
    /\ UpdateAppUnchanged

\* gosu.go 548-549: os.Exit(0)
UpdateAppExit ==
    /\ Live /\ pc = "ua_exit"
    /\ process' = Exit0
    /\ UNCHANGED <<pc, call, result, extractor>>
    /\ UNCHANGED <<channels, poller, received, cancelSinceEntry, cancelInFlight, cancelAgain,
                   changelogCall, fetchErr>>
    /\ UpdateAppUnchanged

Next ==
    \/ CheckUpdatesFetchFailed
    \/ CheckUpdates
    \/ DownloadAssetEnter
    \/ DownloadAssetNewContext
    \/ DownloadAssetSelect
    \/ DownloadAssetRemoveFile
    \/ DownloadAssetStartPoller
    \/ TransferConnectFailed
    \/ TransferBackoff
    \/ TransferResponse
    \/ TransferRejected
    \/ TransferChunk
    \/ TransferBodyFailed
    \/ TransferComplete
    \/ TransferCancelled
    \/ DownloadAssetAfterTransfer
    \/ DownloadAssetFinalSample
    \/ DownloadAssetCloseProgress
    \/ DownloadAssetCloseStop
    \/ \E d \in Tokens : PollerStopped(d)
    \/ \E d \in Tokens : PollerFileAbsent(d)
    \/ \E d \in Tokens : PollerReadError(d)
    \/ \E d \in Tokens : PollerStat(d)
    \/ \E d \in Tokens : PollerSend(d)
    \/ CancelAssetDownloading
    \/ UpdateAppEnter
    \/ ExtractorWrite
    \/ ExtractorStart
    \/ UpdateAppExit

Spec == Init /\ [][Next]_vars

\* a step of the thread that runs DownloadAsset, its request included
DownloadStep ==
    \/ DownloadAssetNewContext
    \/ DownloadAssetSelect
    \/ DownloadAssetRemoveFile
    \/ DownloadAssetStartPoller
    \/ TransferConnectFailed
    \/ TransferBackoff
    \/ TransferResponse
    \/ TransferRejected
    \/ TransferChunk
    \/ TransferBodyFailed
    \/ TransferComplete
    \/ TransferCancelled
    \/ DownloadAssetAfterTransfer
    \/ DownloadAssetFinalSample
    \/ DownloadAssetCloseProgress
    \/ DownloadAssetCloseStop

\* The Go scheduler runs every goroutine that can run, the request ends within
\* its timeout (gosu.go 596) and the observer keeps receiving: the thread of
\* DownloadAsset goes on, a poller that sees stopCh closed returns and a pending
\* send of a poller is carried out.
LiveSpec ==
    /\ Spec
    /\ WF_vars(DownloadStep)
    /\ \A d \in Tokens : WF_vars(PollerStopped(d)) /\ WF_vars(PollerSend(d))

(***************************************************************************)
(* Properties.                                                             *)
(***************************************************************************)
\* the host called DownloadAsset last and it has returned a result
DownloadReturned == call = "DownloadAsset" /\ result # NoResult

InUpdateApp == pc \in {"ua_write", "ua_start", "ua_exit"}

\* C1: a cancel issued while the transfer is in flight makes DownloadAsset return
\* CODE_DOWNLOADING_CANCELLED, and from the cancellation on the request writes no
\* byte and starts no attempt: its only step is to return context.Canceled.
C1_CancelInFlight ==
    /\ [](cancelInFlight /\ DownloadReturned
             => result.Code = CODE_DOWNLOADING_CANCELLED)
    /\ [][InFlight /\ CtxCancelled
             => /\ file' = file
                /\ \/ xfer' = xfer /\ attempt' = attempt /\ pc' = pc
                   \/ pc' = "da_after" /\ ErrorsIs(err', Canceled)]_vars

\* a download cancelled in the middle of the body has returned CODE_DOWNLOADING_CANCELLED
C1_Witness ==
    /\ cancelInFlight /\ DownloadReturned
    /\ result.Code = CODE_DOWNLOADING_CANCELLED
    /\ file = 1 /\ Deref(releaseAsset).Size > 1

\* C2: DownloadAsset called when no CheckUpdates has fetched a release panics with
\* "lastRelease is nil": it returns no result and starts no download.
C2_DownloadBeforeCheckIsFatal ==
    call = "DownloadAsset" /\ ~fetched
        => /\ process = PanicLastReleaseNil
           /\ result = NoResult
           /\ dl = 0 /\ pc = "idle" /\ xfer = "none" /\ file = NoFile

C2_Witness == call = "DownloadAsset" /\ ~fetched /\ process = PanicLastReleaseNil

\* C3: UpdateApp called when no DownloadAsset was ever started panics with
\* "releaseAsset is nil": it returns no result, writes and launches no script and
\* does not exit.
C3_UpdateBeforeDownloadIsFatal ==
    call = "UpdateApp" /\ dl = 0
        => /\ process = PanicReleaseAssetNil
           /\ result = NoResult
           /\ ~scriptWritten /\ ~scriptLaunched /\ pc = "idle"

C3_Witness == call = "UpdateApp" /\ dl = 0 /\ fetched /\ process = PanicReleaseAssetNil

\* C4: DownloadAsset gets past its sequencing check only when the CheckUpdates
\* before it returned CODE_NEW_VERSION_DETECTED.
C4_DownloadOnlyAfterNewVersion ==
    InDownloadAsset => checkCode = CODE_NEW_VERSION_DETECTED

\* C5: UpdateApp gets past its sequencing check only when the DownloadAsset before
\* it returned CODE_DOWNLOADING_COMPLETED.
C5_UpdateOnlyAfterCompleted ==
    InUpdateApp => downloadCode = CODE_DOWNLOADING_COMPLETED

\* C6: when a download with a progress channel has returned
\* CODE_DOWNLOADING_COMPLETED, the last sample the observer received is the final
\* one, {size, size, 100}.
C6_FinalSampleIsLast ==
    DownloadReturned /\ result.Code = CODE_DOWNLOADING_COMPLETED /\ progressCh # NilPtr
        => /\ received # <<>>
           /\ received[Len(received)] =
                  DownloadingProgress(Deref(releaseAsset).Size, Deref(releaseAsset).Size, 100)

\* C7: a download that returned CODE_DOWNLOADING_CANCELLED or CODE_ERROR has
\* delivered no sample with ProgressPercent = 100.
C7_NoFullSampleUnlessCompleted ==
    DownloadReturned /\ result.Code \in {CODE_DOWNLOADING_CANCELLED, CODE_ERROR}
        => \A i \in 1..Len(received) : received[i].ProgressPercent # 100

\* C8: the poller never sends on the progress channel once it is closed.
C8_NoSendAfterClose == process # PanicSendOnClosed

\* C9: the percentages the observer received from a download that returned
\* CODE_DOWNLOADING_COMPLETED never decrease.
C9_PercentNonDecreasing ==
    DownloadReturned /\ result.Code = CODE_DOWNLOADING_COMPLETED
        => \A i, j \in 1..Len(received) :
              i < j => received[i].ProgressPercent <= received[j].ProgressPercent

\* C10: a download returns CODE_DOWNLOADING_CANCELLED only when
\* CancelAssetDownloading was called after that download was entered: a cancel
\* issued before it, for the token of an earlier download, never cancels it.
C10_TokenPerInvocation ==
    DownloadReturned /\ result.Code = CODE_DOWNLOADING_CANCELLED => cancelSinceEntry

\* the second download completed although the token of the first was cancelled
\* before the second was entered
C10_Witness ==
    /\ dl = 2 /\ 1 \in cancelled /\ ~cancelSinceEntry
    /\ DownloadReturned /\ result.Code = CODE_DOWNLOADING_COMPLETED

\* the transfer of the download called last has completed: downloadAsset returned
\* nil, or DownloadAsset is returning or has returned CODE_DOWNLOADING_COMPLETED
TransferCompleted ==
    \/ pc = "da_after" /\ err = NIL
    \/ pc = "da_final"
    \/ ret.Code = CODE_DOWNLOADING_COMPLETED
    \/ pc = "idle" /\ DownloadReturned /\ result.Code = CODE_DOWNLOADING_COMPLETED

\* the step is a call of CancelAssetDownloading that did not panic: the first
\* for its token, or the first repeated one
CancelStep == cancelled' # cancelled \/ (cancelAgain' /\ ~cancelAgain)

\* C11: a call of CancelAssetDownloading for a token that is cancelled already
\* changes nothing, and a call after the transfer completed raises nothing and
\* changes nothing the program reads but the token: the completed result, the
\* retained asset and the file stay, so UpdateApp still passes its check.
C11_CancelIdempotent ==
    /\ [][cancelAgain' /\ ~cancelAgain
             => /\ Deref(cancelDownloading) \in cancelled
                /\ UNCHANGED <<cancelled, process, updater, host, channels, asset, file,
                               transfer, poller, received, extractor>>]_vars
    /\ [][CancelStep /\ TransferCompleted
             => /\ process' = Running
                /\ releaseAsset' # NilPtr
                /\ UNCHANGED <<updater, host, channels, asset, file, transfer, poller,
                               received, extractor>>]_vars
    /\ [](pc = "ua_write" /\ downloadCode = CODE_DOWNLOADING_COMPLETED
             => releaseAsset # NilPtr /\ process = Running)

\* the token of a completed download was triggered twice after the download
\* returned, and the result is still CODE_DOWNLOADING_COMPLETED
C11_Witness ==
    /\ cancelAgain /\ Deref(cancelDownloading) \in cancelled
    /\ pc = "idle" /\ DownloadReturned /\ result.Code = CODE_DOWNLOADING_COMPLETED
    /\ ~cancelSinceEntry /\ process = Running /\ releaseAsset # NilPtr

\* C12: CancelAssetDownloading called when no download is in flight, a session
\* that never started one included, does not end the process with a panic.
C12_CancelWithoutDownloadNotFatal ==
    ~InDownloadAsset => process # PanicCancelNil

\* the host called CheckUpdates last and its release fetch succeeded
CheckFetched ==
    call = "CheckUpdates" /\ lastRelease # NilPtr /\ result.Message # "Unable to get updates."

\* the place of a parsed version in the order of versions
VersionRank(v) == v[1] * 10000 + v[2] * 100 + v[3]

\* C13: after a successful fetch with a parseable remote tag and local version,
\* CheckUpdates returns exactly one of the three version outcomes: already latest
\* iff remote = local, unreleased iff remote < local, new version iff remote > local.
C13_VersionOutcome ==
    CheckFetched
        => LET remote == parseSemVer(Deref(lastRelease).TagName)
               local == parseSemVer(LocalVersion)
           IN  remote # NilPtr /\ local # NilPtr
                  => /\ result.Code \in {CODE_LATEST_VERSION_IS_ALREADY_IN_USE,
                                          CODE_UNRELEASED_VERSION_IS_IN_USE,
                                          CODE_NEW_VERSION_DETECTED}
                     /\ result.Code = CODE_LATEST_VERSION_IS_ALREADY_IN_USE
                            <=> VersionRank(remote) = VersionRank(local)
                     /\ result.Code = CODE_UNRELEASED_VERSION_IS_IN_USE
                            <=> VersionRank(remote) < VersionRank(local)
                     /\ result.Code = CODE_NEW_VERSION_DETECTED
                            <=> VersionRank(remote) > VersionRank(local)

\* the remote tag 1.2.0 is older than the local version 1.3.0
C13_Witness ==
    /\ CheckFetched
    /\ Deref(lastRelease).TagName = "1.2.0" /\ LocalVersion = "1.3.0"
    /\ result.Code = CODE_UNRELEASED_VERSION_IS_IN_USE

\* the version strings of the model that are versions
WellFormed == {"1.2.0", "1.3.0", "v2.0.0"}

\* C14: when the remote tag or the local version is no version string, a
\* CheckUpdates whose fetch succeeded returns CODE_ERROR with the SemVer message,
\* none of the three version outcomes, and does not panic.
C14_MalformedVersionIsError ==
    CheckFetched /\ (Deref(lastRelease).TagName \notin WellFormed \/ LocalVersion \notin WellFormed)
        => /\ result = UpdateResult(CODE_ERROR, "Unable to get updates. The SemVer is invalid.", "")
           /\ process # PanicNilDereference

\* the registry answered with the tag "not-a-version" to a host of version 1.3.0
C14_Witness ==
    /\ CheckFetched
    /\ Deref(lastRelease).TagName = "not-a-version" /\ LocalVersion = "1.3.0"
    /\ result.Code = CODE_ERROR

\* C15: when getChangelog fails in a CheckUpdates that detects a new version,
\* the result is CODE_NEW_VERSION_DETECTED and its details are the body of the
\* release.
C15_ChangelogFailureKeepsNotes ==
    call = "CheckUpdates" /\ changelogCall = "failed"
        => /\ result.Code = CODE_NEW_VERSION_DETECTED
           /\ result.Details = Deref(lastRelease).Body

\* C16: getChangelog is called only by a CheckUpdates of a host that opted in
\* and that returns CODE_NEW_VERSION_DETECTED; a CheckUpdates that returns another
\* code has made no changelog request.
C16_ChangelogOnlyForNewVersion ==
    /\ changelogCall # "none"
           => /\ call = "CheckUpdates" /\ DownloadChangelog
              /\ result.Code = CODE_NEW_VERSION_DETECTED
    /\ call = "CheckUpdates"
           /\ result.Code \in {CODE_LATEST_VERSION_IS_ALREADY_IN_USE,
                                CODE_UNRELEASED_VERSION_IS_IN_USE, CODE_ERROR}
           => changelogCall = "none"

\* a host that opted in is told it is up to date, and no changelog was requested
C16_Witness ==
    /\ CheckFetched /\ DownloadChangelog
    /\ result.Code = CODE_LATEST_VERSION_IS_ALREADY_IN_USE
    /\ changelogCall = "none"

\* C17: a DownloadAsset that cannot select an asset returns CODE_ERROR and starts
\* no transfer: on an unsupported OS with the "Unsupported OS" message, and on a
\* supported OS whose release has no asset for the platform without a panic.
C17_SelectionFailureIsError ==
    /\ process # PanicIndexOutOfRange
    /\ DownloadReturned /\ ~StrContains(GOOS, "linux") /\ ~StrContains(GOOS, "windows")
           => /\ result = UpdateResult(CODE_ERROR, "Unsupported OS: " \o GOOS, "")
              /\ file = NoFile /\ releaseAsset = NilPtr

\* C18: a CheckUpdates whose release fetch failed, by a refused connection or by
\* an error status, returns CODE_ERROR with the message "Unable to get updates."
\* and the failure as details; it returns none of the version outcomes, keeps
\* the release it had and does not panic.
C18_FetchFailureIsError ==
    /\ [](call = "CheckUpdates" /\ fetchErr # NIL
             => /\ result.Code = CODE_ERROR
                /\ result.Message = "Unable to get updates."
                /\ result.Details \in {"Unable to connect to the server", fetchErr}
                /\ result.Details # ""
                /\ changelogCall = "none"
                /\ process # PanicNilDereference)
    /\ [][fetchErr' # NIL /\ fetchErr' # fetchErr
             => lastRelease' = lastRelease /\ process' = Running]_vars

\* the connection is refused in a session that had fetched a release before
C18_Witness ==
    /\ call = "CheckUpdates" /\ fetched
    /\ fetchErr = "dial tcp 140.82.121.6:443: connect: connection refused"
    /\ result.Code = CODE_ERROR /\ result.Details = "Unable to connect to the server"

\* C19: UpdateApp writes the script, then starts it, then calls os.Exit(0): the
\* process exits with 0 only after the script was written and started, the exit
\* is the step that follows the start, and UpdateApp returns no result once the
\* script is started.
C19_ApplyOrder ==
    /\ [](pc = "ua_start" => scriptWritten)
    /\ [](pc = "ua_exit" => scriptWritten /\ scriptLaunched /\ result = NoResult)
    /\ [](process = Exit0
             => /\ scriptWritten /\ scriptLaunched
                /\ call = "UpdateApp" /\ result = NoResult)
    /\ [][scriptWritten' # scriptWritten => pc = "ua_write" /\ pc' = "ua_start"]_vars
    /\ [][scriptLaunched' # scriptLaunched => pc = "ua_start" /\ pc' = "ua_exit"]_vars
    /\ [][pc = "ua_exit"
             => /\ pc' = "ua_exit" /\ result' = NoResult
                /\ process' \in {Running, Exit0}]_vars

\* the process has exited with 0 after the script was started
C19_Witness ==
    /\ process = Exit0 /\ call = "UpdateApp"
    /\ scriptWritten /\ scriptLaunched /\ result = NoResult

\* C20: when writing or starting the script fails, UpdateApp returns CODE_ERROR
\* to its caller and the process goes on running: it never exits after it.
C20_ApplyFailureReturnsError ==
    /\ [](call = "UpdateApp" /\ result # NoResult
             => /\ result.Code = CODE_ERROR
                /\ result.Message = "Unable to create or run extractor."
                /\ result.Details # ""
                /\ pc = "idle" /\ ~scriptLaunched
                /\ process # Exit0)
    /\ [][InUpdateApp /\ result' # NoResult
             => /\ pc \in {"ua_write", "ua_start"} /\ pc' = "idle"
                /\ result'.Code = CODE_ERROR
                /\ process' = Running
                /\ scriptLaunched' = FALSE]_vars

\* the script was written and could not be started: UpdateApp returned the error
C20_Witness ==
    /\ call = "UpdateApp" /\ pc = "idle" /\ process = Running
    /\ result.Code = CODE_ERROR
    /\ result.Details = "fork/exec ./update.sh: exec format error"
    /\ scriptWritten /\ ~scriptLaunched

\* C21: a DownloadAsset called with a progress channel has returned to its caller
\* while the transfer is still running.
C21_ReturnsBeforeTransferEnds ==
    pc = "da_transfer" /\ progressCh # NilPtr => result # NoResult

\* C22: with an observer that keeps receiving, every DownloadAsset that started
\* its transfer with a progress channel returns a result, and every poller that
\* was started ends.
C22_DownloadAndPollerTerminate ==
    /\ (pc = "da_transfer" /\ progressCh # NilPtr) ~> DownloadReturned
    /\ \A d \in Tokens : (poller[d].pc \in {"tick", "send"}) ~> (poller[d].pc = "done")

\* C23: an attempt that gets no response is retried, one retry at a time and at
\* most 3 times; when the attempt after the third retry fails too, downloadAsset
\* returns the error with no attempt after it and DownloadAsset returns
\* CODE_ERROR with that error, not completed and not cancelled.
C23_BoundedRetries ==
    /\ [](RetryCount = 3 /\ attempt \in 0..3)
    /\ [](xfer = "backoff" => attempt \in 1..3)
    /\ [][attempt' # attempt
             => \/ attempt' = 0
                \/ attempt' = attempt + 1 /\ xfer = "connect" /\ xfer' = "backoff"]_vars
    /\ [][err' = ConnectionFailed /\ err # ConnectionFailed
             => /\ xfer = "connect" /\ attempt = 3
                /\ xfer' = "none" /\ pc' = "da_after" /\ file' = file]_vars
    /\ [][err = ConnectionFailed /\ pc' # pc
             => ret' = UpdateResult(CODE_ERROR, "Unable to download asset.", ConnectionFailed)]_vars
    /\ [][ret.Details = ConnectionFailed /\ result' # result
             => result' = ret /\ result'.Code = CODE_ERROR /\ xfer' = "none"]_vars

\* no attempt got a response and nobody cancelled: the download returned the error
C23_Witness ==
    /\ DownloadReturned /\ ~cancelSinceEntry
    /\ result = UpdateResult(CODE_ERROR, "Unable to download asset.", ConnectionFailed)
    /\ file = NoFile /\ xfer = "none"

\* C24: a CancelAssetDownloading that runs while DownloadAsset is running, at any
\* point after its entry, does not panic and cancels the token of the running
\* invocation, never the token of an invocation before; the download it cancels
\* before the transfer has ended returns CODE_DOWNLOADING_CANCELLED.
C24_ConcurrentCancel ==
    /\ [](InDownloadAsset => process # PanicCancelNil)
    /\ [][InDownloadAsset /\ cancelled' # cancelled => cancelled' = cancelled \cup {dl}]_vars
    /\ [](cancelInFlight /\ DownloadReturned => result.Code = CODE_DOWNLOADING_CANCELLED)

\* C25: whatever the path on which a DownloadAsset called with a progress channel
\* returned, the channel is closed; it is open until the deferred function runs
\* and is closed by that one step of the invocation, so it is closed exactly once.
C25_ProgressClosedOnce ==
    /\ [](DownloadReturned /\ progressCh # NilPtr => Deref(progressCh) \in progressClosed)
    /\ [](InDownloadAsset /\ pc # "da_close_stop" /\ progressCh # NilPtr
             => Deref(progressCh) \notin progressClosed)
    /\ [][\A c \in progressClosed' \ progressClosed :
               /\ pc = "da_close_progress" /\ pc' = "da_close_stop"
               /\ progressCh = Ptr(c)]_vars

\* the path of the unsupported OS: no poller was started, the channel is closed
C25_Witness ==
    /\ DownloadReturned /\ result.Code = CODE_ERROR /\ GOOS = "darwin"
    /\ progressCh # NilPtr /\ Deref(progressCh) \in progressClosed
    /\ poller[Deref(progressCh)].pc = "off"

\* C26: every sample the observer received has CurrentSize >= 1, the size of the
\* selected asset as TotalSize and ProgressPercent = floor(100 * CurrentSize /
\* TotalSize), a value of 0..100.
C26_SampleValues ==
    \A i \in 1..Len(received) :
        LET sample == received[i]
        IN  /\ sample.CurrentSize >= 1
            /\ sample.TotalSize = Deref(releaseAsset).Size
            /\ sample.ProgressPercent = (100 * sample.CurrentSize) \div sample.TotalSize
            /\ sample.ProgressPercent \in 0..100

\* C27: DownloadAsset removes the file of an earlier download before it starts
\* the poller and the transfer, and goes on when there is no file; when the file
\* cannot be removed it returns CODE_ERROR, starts no poller and no transfer and
\* no sample is sent.
C27_StaleFileRemovedFirst ==
    /\ [](pc = "da_poller" \/ (pc = "da_transfer" /\ xfer \in {"connect", "backoff"})
             => file = NoFile)
    /\ [][pc = "da_remove" /\ pc' # pc
             => \/ /\ file' = NoFile /\ pc' = "da_poller" /\ ret' = NoResult
                \/ /\ file # NoFile /\ file' = file
                   /\ ret' = UpdateResult(CODE_ERROR,
                                          "Unable to delete the old asset: " \o asset.Name,
                                          "remove: permission denied")
                   /\ xfer' = "none" /\ poller' = poller /\ received' = <<>>]_vars
    /\ [](DownloadReturned /\ result.Details = "remove: permission denied"
             => /\ result.Code = CODE_ERROR
                /\ received = <<>> /\ poller[dl].pc = "off"
                /\ xfer = "none" /\ file # NoFile)

\* the file of the first download could not be removed by the second, which was
\* given a progress channel
C27_Witness ==
    /\ DownloadReturned /\ dl = 2 /\ progressCh # NilPtr
    /\ result.Code = CODE_ERROR /\ result.Details = "remove: permission denied"
    /\ file # NoFile /\ received = <<>>

\* the poller of invocation d returns although stopCh is open: Open or Stat failed
PollerEndsEarly(d) ==
    poller[d].pc = "tick" /\ d \notin stopClosed /\ poller'[d].pc = "done"

\* C28: as long as the file of the running download is absent the poller sends
\* no sample and stays in its loop; a poller that ends on a read error changes
\* nothing of the download: neither its position, its request, its file, its
\* result nor the samples received, and the process goes on.
C28_PollerTolerance ==
    /\ [](InDownloadAsset /\ file = NoFile
             => received = <<>> /\ poller[dl].pc \in {"off", "tick"})
    /\ [][\A d \in Tokens :
               poller[d].pc = "tick" /\ file = NoFile /\ poller'[d] # poller[d]
                   => d \in stopClosed]_vars
    /\ [][\A d \in Tokens :
               PollerEndsEarly(d)
                   => /\ file # NoFile
                      /\ process' = Running
                      /\ UNCHANGED <<updater, cancelled, host, channels, asset, file,
                                     transfer, received>>]_vars
    /\ [](InDownloadAsset /\ poller[dl].pc = "done" /\ dl \notin stopClosed
             => process = Running)

\* the poller ended on a read error and the download is returning
\* CODE_DOWNLOADING_COMPLETED with the final sample sent
C28_Witness ==
    /\ pc = "da_close_progress" /\ ret.Code = CODE_DOWNLOADING_COMPLETED
    /\ poller[dl].pc = "done" /\ dl \notin stopClosed
    /\ received = <<DownloadingProgress(asset.Size, asset.Size, 100)>>

====
